---- MODULE Spec2Model ----
(***************************************************************************)
(* A model of the OBD-II logger variants of this repository:               *)
(*   OBD-v2.py / OBD-v3.py : the command-line loggers (connect_with_retry  *)
(*                           followed by the sampling loop of main);       *)
(*   OBD-v4.py / OBD-v5.py : the Tkinter loggers (OBDLoggerApp), with the  *)
(*                           Tk main thread, its queue of root.after       *)
(*                           callbacks and the worker threads.             *)
(* The variable ver says which of the four programs is running.            *)
(***************************************************************************)
EXTENDS Integers, Sequences, FiniteSets, TLC

VARIABLES
    ver,              \* which program runs: "v2", "v3", "v4" or "v5"
    comports,         \* what serial.tools.list_ports.comports() returns
    retries,          \* connect_with_retry's `retries` argument
    pc,               \* position of the command-line program
    available_ports,  \* connect_with_retry's local list of (port, mac)
    idx,              \* index of the candidate the for loop is at (1-based)
    attempt,          \* the inner for loop's attempt number
    ret,              \* what connect_with_retry returned: <<connection, port>>
    sess,             \* every OBD object created so far: [port, status, closes]
    trace,            \* what the negotiation routine in progress did, in order
    qi,               \* queries already issued in the tick in progress
    row,              \* the readings gathered in the tick in progress
    rows,             \* the rows handed to the sink, in order
    tickLinkUp,       \* whether the session was connected when the tick began
    exitKind,         \* how main ended
    self_connection,  \* OBDLoggerApp.connection
    self_running,     \* OBDLoggerApp.running
    port_map,         \* the (port, mac) pairs behind the combobox values
    selected,         \* the port the combobox shows, None for ''
    widgets,          \* state of connect_btn, monitor_btn, port_combo, refresh_btn
    afterq,           \* callbacks queued with root.after(0, ...), oldest first
    mainpc,           \* where the Tk main thread is inside a handler
    threads,          \* the worker threads started so far
    closing,          \* sessions whose close() runs on a thread not yet scheduled
    ticks,            \* ticks begun by monitor_data workers
    connect_log,      \* the line connect() logged last, None before any
    clock,            \* the wall clock at the latest datetime.now(), in model units
    call              \* a utility function under test: its argument and result

(***************************************************************************)
(* Bounds of the model.                                                    *)
(***************************************************************************)
MaxPorts == 2
MaxRetries == 3
MaxTicks == 2
MaxThreads == 3
DayLen == 2         \* model units of the clock in one day
MaxPieces == 3      \* pieces a hardware-id string is made of
MaxCalls == 2       \* calls of a utility function on the same input

(***************************************************************************)
(* Program constants.                                                      *)
(***************************************************************************)
None == "None"
\* the None of a variable that otherwise holds an OBD object (objects are 1, 2, ...)
NoConn == 0
ZeroMac == "00:00:00:00:00:00"
GuiAttempts == 3
parameterSet ==
    << "Coolant Temp", "Engine RPM", "Throttle Pos", "Engine Load",
       "Speed", "Fuel Level", "Intake Temp", "Ambient Temp" >>
NumParams == Len(parameterSet)

(***************************************************************************)
(* Strings the code inspects character by character are sequences of       *)
(* one-character strings.                                                  *)
(***************************************************************************)
Lower == << "a","b","c","d","e","f","g","h","i","j","k","l","m",
            "n","o","p","q","r","s","t","u","v","w","x","y","z" >>
Upper == << "A","B","C","D","E","F","G","H","I","J","K","L","M",
            "N","O","P","Q","R","S","T","U","V","W","X","Y","Z" >>
HexDigits == { "0","1","2","3","4","5","6","7","8","9","A","B","C","D","E","F" }

\* str.upper() on one character
upperChar(c) ==
    IF \E i \in 1..26 : Lower[i] = c
    THEN Upper[CHOOSE i \in 1..26 : Lower[i] = c]
    ELSE c

\* str.upper()
upper(s) == [i \in 1..Len(s) |-> upperChar(s[i])]

\* whether the pattern &([0-9A-F]{12}) matches s at position i
matchAt(s, i) ==
    /\ i + 12 <= Len(s)
    /\ s[i] = "&"
    /\ \A k \in 1..12 : s[i + k] \in HexDigits

\* faulty variant of joinPairs: the six pairs joined in reverse order
joinPairs_reversed(m) ==
    m[11] \o m[12] \o ":" \o m[9] \o m[10] \o ":" \o m[7] \o m[8] \o ":" \o
    m[5] \o m[6] \o ":" \o m[3] \o m[4] \o ":" \o m[1] \o m[2]

\* ":".join(mac_raw[i:i+2] for i in range(0, 12, 2))
joinPairs(m) ==
    m[1] \o m[2] \o ":" \o m[3] \o m[4] \o ":" \o m[5] \o m[6] \o ":" \o
    m[7] \o m[8] \o ":" \o m[9] \o m[10] \o ":" \o m[11] \o m[12]

\* re.search finds the leftmost match; group(1) is the 12 digits after the &
extract_mac_from_hwid(hwid) ==
    LET u == upper(hwid)
        hits == { i \in 1..Len(u) : matchAt(u, i) }
    IN  IF hits # {}
        THEN LET i == CHOOSE j \in hits : \A k \in hits : j <= k
             IN  joinPairs(SubSeq(u, i + 1, i + 12))
        ELSE ZeroMac

\* the definition at the end of OBD-v5.py, which replaces the first one in
\* the module's namespace once the lines after the entry point are executed
extract_mac_from_hwid_2(hwid) ==
    LET u == upper(hwid)
        hits == { i \in 1..Len(u) : matchAt(u, i) }
    IN  IF hits # {}
        THEN LET i == CHOOSE j \in hits : \A k \in hits : j <= k
             IN  joinPairs(SubSeq(u, i + 1, i + 12))
        ELSE "Unknown"

\* "Bluetooth" in port.description
Bluetooth == << "B","l","u","e","t","o","o","t","h" >>
containsAt(s, sub, i) ==
    /\ i + Len(sub) - 1 <= Len(s)
    /\ \A k \in 1..Len(sub) : s[i + k - 1] = sub[k]
contains(s, sub) == \E i \in 1..Len(s) : containsAt(s, sub, i)

RECURSIVE filterPorts(_)
filterPorts(ports) ==
    IF ports = << >> THEN << >>
    ELSE LET port == Head(ports)
             mac == extract_mac_from_hwid(port.hwid)
         IN  IF contains(port.description, Bluetooth) /\ mac # ZeroMac
             THEN << << port.device, mac >> >> \o filterPorts(Tail(ports))
             ELSE filterPorts(Tail(ports))

\* faulty variant of list_paired_bluetooth_ports: the sentinel is not tested
list_paired_bluetooth_ports_unfiltered(ports) ==
    LET bt == SelectSeq(ports, LAMBDA port : contains(port.description, Bluetooth))
    IN  [i \in 1..Len(bt) |-> << bt[i].device, extract_mac_from_hwid(bt[i].hwid) >>]

\* faulty variant of list_paired_bluetooth_ports: the newest candidate first
list_paired_bluetooth_ports_reversed(ports) ==
    LET f == filterPorts(ports)
    IN  [i \in 1..Len(f) |-> f[Len(f) + 1 - i]]

\* faulty variant of list_paired_bluetooth_ports: a port handed out by one
\* call is not handed out by the next
list_paired_bluetooth_ports_once(ports) ==
    IF call.n = 0 THEN filterPorts(ports) ELSE << >>

list_paired_bluetooth_ports(ports) == filterPorts(ports)

\* list_paired_bluetooth_ports of OBD-v5.py when the whole file has been
\* executed (the module loaded by an importer): the name extract_mac_from_hwid
\* is then bound to the definition at the end of the file
RECURSIVE filterPorts_2(_)
filterPorts_2(ports) ==
    IF ports = << >> THEN << >>
    ELSE LET port == Head(ports)
             mac == extract_mac_from_hwid_2(port.hwid)
         IN  IF contains(port.description, Bluetooth) /\ mac # ZeroMac
             THEN << << port.device, mac >> >> \o filterPorts_2(Tail(ports))
             ELSE filterPorts_2(Tail(ports))

list_paired_bluetooth_ports_2(ports) == filterPorts_2(ports)

(***************************************************************************)
(* The serial ports the operating system may enumerate.                    *)
(***************************************************************************)
AllPorts ==
    << [device |-> "COM3",
        description |-> << "B","T"," " >> \o Bluetooth,
        hwid |-> << "7","&","0","&","0","0","1","d","a","5","0","8","4","9","1","2","_","C" >>],
       [device |-> "COM4",
        description |-> Bluetooth \o << " ","l","i","n","k" >>,
        hwid |-> << "&","A","A","B","B","C","C","D","D","E","E","F","F" >>],
       [device |-> "COM5",
        description |-> Bluetooth,
        hwid |-> << "&","0","0","0","0","0","0","0","0","0","0","0","0","_","C" >>],
       [device |-> "COM6",
        description |-> << "U","S","B" >>,
        hwid |-> << "&","0","0","1","D","A","5","0","8","4","9","1","3" >>] >>
PortPool == { AllPorts[i] : i \in 1..Len(AllPorts) }

\* the enumerations: up to MaxPorts distinct ports, in any order
Enumerations ==
    { s \in UNION { [1..n -> PortPool] : n \in 0..MaxPorts } :
        \A i, j \in 1..Len(s) : i # j => s[i] # s[j] }

\* the enumerations a utility function is called with: a port may also be
\* listed more than once
NoMacPort ==
    [device |-> "COM7",
     description |-> << "S","t","d"," " >> \o Bluetooth,
     hwid |-> << "B","T","H","&","1","2" >>]
AnyEnumerations == UNION { [1..n -> PortPool \cup {NoMacPort}] : n \in 0..MaxPorts }

\* the Tkinter programs are explored with no serial port at all and with every
\* port of the pool present
GuiEnumerations == { << >>, AllPorts }

(***************************************************************************)
(* Events of the negotiation routine.                                      *)
(***************************************************************************)
Ev(e, port, att, out) == [e |-> e, port |-> port, att |-> att, out |-> out]

\* the OBD objects
NewSess(port, status) == [port |-> port, status |-> status, closes |-> 0]
isConnected(s) == s # NoConn /\ sess[s].status = "connected"
\* faulty variant of closeSess: nothing is closed
closeSess_forgotten(ss, s) == ss
closeSess(ss, s) ==
    [ss EXCEPT ![s] = [@ EXCEPT !.status = "closed", !.closes = @ + 1]]
\* close() of an object that never connected and that nothing refers to any
\* more: it is closed and, when it is the newest object, forgotten
discardSess(ss, s) == IF s = Len(ss) THEN SubSeq(ss, 1, s - 1) ELSE closeSess(ss, s)

cliVars == << pc, available_ports, idx, attempt, ret, qi, row, tickLinkUp, exitKind, trace, retries >>
guiVars == << self_connection, self_running, port_map, selected, widgets, afterq,
              mainpc, threads, closing, ticks, connect_log >>
vars == << ver, comports, sess, rows, clock, call, cliVars, guiVars >>

\* no utility function is under test while a program runs
NoCall == [fn |-> None, arg |-> << >>, res |-> None, n |-> 0, prev |-> None]

\* the Tkinter program before __init__ has run; the command-line programs
\* never leave it
GuiOff ==
    /\ self_connection = NoConn
    /\ self_running = FALSE
    /\ port_map = << >>
    /\ selected = None
    /\ widgets = [connect_btn |-> "normal", monitor_btn |-> "disabled",
                  port_combo |-> "readonly", refresh_btn |-> "normal"]
    /\ afterq = << >>
    /\ mainpc = "idle"
    /\ threads = << >>
    /\ closing = {}
    /\ ticks = 0
    /\ connect_log = None

(***************************************************************************)
(* Init: one of the programs is launched.                                  *)
(***************************************************************************)
InitCLI ==
    /\ ver \in {"v2", "v3"}
    /\ comports \in Enumerations
    /\ retries \in 1..MaxRetries
    /\ pc = "cwr_scan"
    /\ available_ports = << >>
    /\ idx = 0
    /\ attempt = 0
    /\ ret = << NoConn, None >>
    /\ sess = << >>
    /\ trace = << >>
    /\ qi = 0
    /\ row = << >>
    /\ rows = << >>
    /\ tickLinkUp = TRUE
    /\ exitKind = None
    /\ clock = 0
    /\ call = NoCall
    /\ GuiOff

(***************************************************************************)
(* connect_with_retry (OBD-v2.py, OBD-v3.py)                               *)
(***************************************************************************)
\* if not available_ports:
\* faulty variant of noCandidates: the early return is never taken
noCandidates_never(ports) == FALSE
noCandidates(ports) == ports = << >>

\* where the outer for loop goes after candidate i is done with
nextCandidatePc(ports, i) == IF i < Len(ports) THEN "cwr_settle" ELSE "cwr_fail"

\* faulty variant of afterSettle: a failed settle step does not skip the port
afterSettle_noSkip(out) == "cwr_open"

\* faulty variant of afterSettle: only a failing serial.Serial(...) skips the
\* port, a failing s.close() does not
afterSettle_closeErrorIgnored(out) ==
    IF out # "open_raises" THEN "cwr_open" ELSE nextCandidatePc(available_ports, idx)

\* faulty variant of afterSettle: the last candidate is tried even when its
\* settle step failed
afterSettle_lastNotSkipped(out) ==
    IF out = "ok" \/ idx = Len(available_ports) THEN "cwr_open"
    ELSE nextCandidatePc(available_ports, idx)

\* try: ... except Exception: print, continue -- where the settle step leads
afterSettle(out) == IF out = "ok" THEN "cwr_open" ELSE nextCandidatePc(available_ports, idx)

\* faulty variant of afterOpen: a connected session is closed and retried
afterOpen_closeOnSuccess(out) ==
    CASE out = "connected" -> "cwr_close"
      [] out = "notconn" -> "cwr_close"
      [] out = "raise" -> "cwr_delay"

\* faulty variant of afterOpen: after an exception the next OBD(...) follows
\* at once, without time.sleep(delay)
afterOpen_raiseRetriesAtOnce(out) ==
    CASE out = "connected" -> "main_check"
      [] out = "notconn" -> "cwr_close"
      [] out = "raise" -> "cwr_open"

\* the three ways one pass of the inner loop goes on after OBD(...)
afterOpen(out) ==
    CASE out = "connected" -> "main_check"
      [] out = "notconn" -> "cwr_close"
      [] out = "raise" -> "cwr_delay"

\* faulty variant of moreAttempts: range(1, retries + 2)
moreAttempts_oneMore == attempt <= retries

\* faulty variant of moreAttempts: the budget of a port is used twice over
moreAttempts_twiceOver == attempt < 2 * retries

\* for attempt in range(1, retries + 1): whether another pass follows
moreAttempts == attempt < retries

\* faulty variant of noAdapterReturn: a value of its own for exhaustion
noAdapterReturn_tagged == << NoConn, "exhausted" >>

\* what each of the two failing returns hands back
noPortsReturn == << NoConn, None >>
noAdapterReturn == << NoConn, None >>

\* the scan and the early return on an empty candidate list
cwr_scan ==
    /\ pc = "cwr_scan"
    /\ available_ports' = list_paired_bluetooth_ports(comports)
    /\ IF noCandidates(available_ports')
       THEN /\ trace' = Append(trace, Ev("print", None, 0, "NoPairedPortsFound"))
            /\ ret' = noPortsReturn
            /\ pc' = "main_check"
            /\ idx' = idx
       ELSE /\ trace' = trace
            /\ ret' = ret
            /\ pc' = nextCandidatePc(available_ports', 0)
            /\ idx' = 1
    /\ UNCHANGED << guiVars, ver, comports, call, clock, retries, sess, attempt, qi, row, rows, tickLinkUp, exitKind >>

\* the pre-check: sleep, serial.Serial(...), sleep, close, sleep; skip on error
cwr_settle ==
    /\ pc = "cwr_settle"
    /\ \E out \in {"ok", "open_raises", "close_raises"} :
        /\ trace' = Append(trace, Ev("settle", available_ports[idx][1], 0, out))
        /\ pc' = afterSettle(out)
        /\ IF pc' = "cwr_open"
           THEN attempt' = 1 /\ idx' = idx
           ELSE attempt' = attempt /\ idx' = idx + 1
    /\ UNCHANGED << guiVars, ver, comports, call, clock, retries, sess, available_ports, ret, qi, row, rows, tickLinkUp, exitKind >>

\* one pass of the inner loop up to the sleep: OBD(...) and is_connected()
cwr_open ==
    /\ pc = "cwr_open"
    /\ \E out \in {"connected", "notconn", "raise"} :
        LET port == available_ports[idx][1] IN
        /\ trace' = Append(trace, Ev("open", port, attempt, out))
        /\ sess' = IF out = "raise" THEN sess ELSE Append(sess, NewSess(port, out))
        /\ pc' = afterOpen(out)
        /\ ret' = IF pc' = "main_check" THEN << Len(sess'), port >> ELSE ret
    /\ UNCHANGED << guiVars, ver, comports, call, clock, retries, available_ports, idx, attempt, qi, row, rows, tickLinkUp, exitKind >>

\* connection.close() of an object that did not respond
cwr_close ==
    /\ pc = "cwr_close"
    /\ sess' = discardSess(sess, Len(sess))
    /\ trace' = Append(trace, Ev("close", available_ports[idx][1], attempt, "ok"))
    /\ pc' = "cwr_delay"
    /\ UNCHANGED << guiVars, ver, comports, call, clock, retries, available_ports, idx, attempt, ret, qi, row, rows, tickLinkUp, exitKind >>

\* time.sleep(delay), then the next attempt or the next candidate
cwr_delay ==
    /\ pc = "cwr_delay"
    /\ trace' = Append(trace, Ev("delay", available_ports[idx][1], attempt, "ok"))
    /\ IF moreAttempts
       THEN /\ attempt' = attempt + 1
            /\ pc' = "cwr_open"
            /\ idx' = idx
       ELSE /\ attempt' = attempt
            /\ pc' = nextCandidatePc(available_ports, idx)
            /\ idx' = idx + 1
    /\ UNCHANGED << guiVars, ver, comports, call, clock, retries, sess, available_ports, ret, qi, row, rows, tickLinkUp, exitKind >>

\* all candidates exhausted
cwr_fail ==
    /\ pc = "cwr_fail"
    /\ trace' = Append(trace, Ev("print", None, 0, "NoResponsiveAdapter"))
    /\ ret' = noAdapterReturn
    /\ pc' = "main_check"
    /\ UNCHANGED << guiVars, ver, comports, call, clock, retries, sess, available_ports, idx, attempt, qi, row, rows, tickLinkUp, exitKind >>

(***************************************************************************)
(* The environment: the Bluetooth link of a connected session drops.       *)
(***************************************************************************)
LinkDrop ==
    /\ \E s \in 1..Len(sess) :
        /\ sess[s].status = "connected"
        /\ sess' = [sess EXCEPT ![s].status = "lost"]
    /\ UNCHANGED << ver, comports, call, clock, rows, cliVars, guiVars >>

(***************************************************************************)
(* main (OBD-v2.py, OBD-v3.py)                                             *)
(***************************************************************************)
connection == ret[1]
detected_port == ret[2]

\* datetime.now().strftime('%H:%M:%S') of v2: the time of day only
strftime_HMS(c) == << c % DayLen >>
\* now.isoformat() of v3, v4, v5: the date and the time of day
isoformat(c) == << c \div DayLen, c % DayLen >>
timestampOf(c) == IF ver = "v2" THEN strftime_HMS(c) ELSE isoformat(c)

\* one formatted reading; p records which query produced it
Reading(p, v) == [p |-> p, v |-> v]
\* what the sink is handed for one tick; w records which worker built it
\* (0 for main)
Sample(ts, w, data) == [ts |-> ts, w |-> w, data |-> data]

\* the reading of one parameter, as get_formatted_value(response, unit)
\* of v2/v3 returns it: None for a null response
MaybeNull == { "Fuel Level" }
cliReadings(s, p) ==
    IF sess[s].status = "connected"
    THEN IF p \in MaybeNull THEN { Reading(p, "val"), Reading(p, None) } ELSE { Reading(p, "val") }
    ELSE { Reading(p, None) }

\* connect_with_retry has returned (its locals are gone, the record of what it
\* did is dropped); if not connection or not connection.is_connected(): return
main_check ==
    /\ pc = "main_check"
    /\ IF connection = NoConn \/ ~isConnected(connection)
       THEN /\ pc' = "done"
            /\ exitKind' = "NoConnection"
       ELSE /\ pc' = "loop_head"
            /\ exitKind' = exitKind
    /\ available_ports' = << >>
    /\ idx' = 0
    /\ attempt' = 0
    /\ trace' = << >>
    /\ UNCHANGED << guiVars, ver, comports, call, clock, retries, sess, ret, qi, row, rows, tickLinkUp >>

\* while True: the tick begins, the timestamp is taken
main_tick ==
    /\ pc = "loop_head"
    /\ Len(rows) < MaxTicks
    /\ tickLinkUp' = isConnected(connection)
    \* datetime.now(): the clock has moved on since it was last read
    /\ clock' = clock + 1
    /\ qi' = 0
    /\ row' = << timestampOf(clock') >>
    /\ pc' = "query"
    /\ UNCHANGED << guiVars, ver, comports, call, retries, sess, trace, available_ports, idx, attempt, ret, rows, exitKind >>

\* faulty variant of rowComplete: the row is handed on one reading short
rowComplete_early(n) == n >= NumParams - 1

\* the list literal of main is built once its last element is evaluated
rowComplete(n) == n = NumParams

\* get_formatted_value(connection.query(...), unit), one list element
main_query ==
    /\ pc = "query"
    /\ qi < NumParams
    /\ \/ /\ \E r \in cliReadings(connection, parameterSet[qi + 1]) :
                row' = Append(row, r)
          /\ qi' = qi + 1
          /\ pc' = IF rowComplete(qi + 1) THEN "emit" ELSE "query"
          /\ UNCHANGED << sess, exitKind >>
       \/ \* the query raises: the finally clause closes the connection and
          \* the exception leaves main
          /\ sess' = closeSess(sess, connection)
          /\ pc' = "done"
          /\ exitKind' = "Exception"
          /\ UNCHANGED << qi, row >>
    /\ UNCHANGED << guiVars, ver, comports, call, clock, retries, trace, available_ports, idx, attempt, ret, rows, tickLinkUp >>

\* the row goes to the sink (data_log in v2, the CSV file in v3), is
\* displayed, and the loop sleeps REFRESH_RATE
main_emit ==
    /\ pc = "emit"
    /\ \/ /\ rows' = Append(rows, Sample(Head(row), 0, Tail(row)))
          /\ pc' = "loop_head"
          /\ UNCHANGED << sess, exitKind >>
       \/ \* the sink or the display raises, before or after the row is
          \* stored: the finally clause closes the connection and the
          \* exception leaves main
          /\ rows' \in { rows, Append(rows, Sample(Head(row), 0, Tail(row))) }
          /\ sess' = closeSess(sess, connection)
          /\ pc' = "done"
          /\ exitKind' = "Exception"
    /\ UNCHANGED << guiVars, ver, comports, call, clock, retries, trace, available_ports, idx, attempt, ret, qi, row, tickLinkUp >>

\* Ctrl+C inside the try block: except KeyboardInterrupt, then
\* finally: connection.close()
main_interrupt ==
    /\ pc \in {"loop_head", "query", "emit"}
    /\ sess' = closeSess(sess, connection)
    /\ pc' = "done"
    /\ exitKind' = "KeyboardInterrupt"
    /\ UNCHANGED << guiVars, ver, comports, call, clock, retries, trace, available_ports, idx, attempt, ret, qi, row, rows, tickLinkUp >>

(***************************************************************************)
(* OBDLoggerApp (OBD-v4.py, OBD-v5.py)                                     *)
(*                                                                         *)
(* The Tk main thread runs one handler at a time: a button command or the  *)
(* oldest root.after(0, ...) callback.  Worker threads interleave with it  *)
(* at every access to self.running and self.connection.  Status-log lines  *)
(* and button captions are display only and are left out of the queue.     *)
(***************************************************************************)
Thread(kind, port, born) ==
    [kind |-> kind, pc |-> IF kind = "neg" THEN "n_open" ELSE "m_head",
     port |-> port, attempt |-> 1, conn |-> NoConn, qi |-> 0, row |-> << >>,
     born |-> born, stopped |-> FALSE, lateTick |-> FALSE, checked |-> FALSE,
     outcome |-> None, tr |-> << >>, ts |-> << >>, okTicks |-> 0]

\* a worker whose target function has returned: its locals are gone
Done(t) ==
    [t EXCEPT !.pc = "done", !.port = None, !.attempt = 1, !.conn = NoConn, !.qi = 0,
              !.row = << >>, !.stopped = FALSE, !.checked = FALSE, !.outcome = None,
              !.tr = << >>, !.ts = << >>, !.okTicks = 0, !.born = None, !.lateTick = FALSE]

Cb(cb, arg) == [cb |-> cb, arg |-> arg]

Alive(kind) == { i \in 1..Len(threads) : threads[i].kind = kind /\ threads[i].pc # "done" }

InitGUI ==
    /\ ver \in {"v4", "v5"}
    /\ comports \in GuiEnumerations
    /\ retries = GuiAttempts
    /\ pc = "gui"
    /\ available_ports = << >>
    /\ idx = 0
    /\ attempt = 0
    /\ ret = << NoConn, None >>
    /\ sess = << >>
    /\ trace = << >>
    /\ qi = 0
    /\ row = << >>
    /\ rows = << >>
    /\ tickLinkUp = TRUE
    /\ exitKind = None
    /\ clock = 0
    /\ call = NoCall
    /\ self_connection = NoConn
    /\ self_running = FALSE
    \* __init__ ends with update_ports_list()
    /\ port_map = list_paired_bluetooth_ports(comports)
    /\ selected = IF port_map = << >> THEN None ELSE port_map[1][1]
    /\ widgets = [connect_btn |-> "normal", monitor_btn |-> "disabled",
                  port_combo |-> "readonly", refresh_btn |-> "normal"]
    /\ afterq = << >>
    /\ mainpc = "idle"
    /\ threads = << >>
    /\ closing = {}
    /\ ticks = 0
    /\ connect_log = None

\* update_ports_list: the Refresh button
update_ports_list ==
    /\ port_map' = list_paired_bluetooth_ports(comports)
    /\ selected' = IF port_map' = << >> THEN None ELSE port_map'[1][1]

\* connect(): the two early returns, else the negotiation worker is started
connectStarts == selected # None /\ \E i \in 1..Len(port_map) : port_map[i][1] = selected
connect ==
    IF connectStarts
    THEN /\ Len(threads) < MaxThreads
         /\ widgets' = [connect_btn |-> "disabled", monitor_btn |-> "disabled",
                        port_combo |-> "disabled", refresh_btn |-> "disabled"]
         /\ threads' = Append(threads, Thread("neg", selected, "connect"))
         /\ connect_log' = "Starting connection process"
    ELSE /\ connect_log' = "Please select a paired port first"
         /\ UNCHANGED << widgets, threads >>

\* toggle_monitoring, called from `from`: the button, a queued callback or
\* disconnect
toggle_monitoring(from) ==
    IF self_running
    THEN /\ self_running' = FALSE
         /\ threads' = [i \in 1..Len(threads) |->
                           IF threads[i].kind = "mon" /\ threads[i].pc # "done" /\ from = "button"
                           THEN [threads[i] EXCEPT !.stopped = TRUE]
                           ELSE threads[i]]
    ELSE /\ Len(threads) < MaxThreads
         /\ self_running' = TRUE
         /\ threads' = Append(threads, Thread("mon", None, from))

\* disconnect() up to its reading of self.running
disconnect_begin ==
    /\ widgets' = IF ver = "v5" THEN [widgets EXCEPT !.connect_btn = "disabled"] ELSE widgets
    /\ mainpc' = IF self_running THEN "disc_toggle" ELSE "disc_close"

\* disconnect(): the call of toggle_monitoring()
disc_toggle ==
    /\ ver \in {"v4", "v5"}
    /\ mainpc = "disc_toggle"
    /\ toggle_monitoring("disconnect")
    /\ mainpc' = "disc_close"
    /\ UNCHANGED << connect_log, ver, comports, call, clock, sess, rows, cliVars, self_connection, port_map,
                    selected, widgets, afterq, closing, ticks >>

\* disconnect(): if self.connection: close it. v4 closes on the main thread,
\* v5 starts a thread for it
disc_close ==
    /\ ver \in {"v4", "v5"}
    /\ mainpc = "disc_close"
    /\ IF self_connection # NoConn
       THEN IF ver = "v4"
            THEN sess' = closeSess(sess, self_connection) /\ closing' = closing
            ELSE sess' = sess /\ closing' = closing \cup {self_connection}
       ELSE UNCHANGED << sess, closing >>
    /\ mainpc' = "disc_rest"
    /\ UNCHANGED << connect_log, ver, comports, call, clock, rows, cliVars, self_connection, self_running, port_map,
                    selected, widgets, afterq, threads, ticks >>

\* disconnect(): self.connection = None and the widgets
disc_rest ==
    /\ ver \in {"v4", "v5"}
    /\ mainpc = "disc_rest"
    /\ self_connection' = NoConn
    /\ widgets' = [connect_btn |-> "normal", monitor_btn |-> "disabled",
                   port_combo |-> "readonly", refresh_btn |-> "normal"]
    /\ mainpc' = "idle"
    /\ UNCHANGED << connect_log, ver, comports, call, clock, sess, rows, cliVars, self_running, port_map, selected,
                    afterq, threads, closing, ticks >>

\* the thread that runs self.connection.close (v5)
close_thread ==
    /\ ver \in {"v4", "v5"}
    /\ \E s \in closing :
        /\ sess' = closeSess(sess, s)
        /\ closing' = closing \ {s}
    /\ UNCHANGED << connect_log, ver, comports, call, clock, rows, cliVars, self_connection, self_running, port_map,
                    selected, widgets, afterq, mainpc, threads, ticks >>

\* the Connect / Disconnect button: toggle_connection
ClickConnect ==
    /\ ver \in {"v4", "v5"}
    /\ mainpc = "idle"
    /\ widgets.connect_btn = "normal"
    /\ IF self_connection # NoConn /\ isConnected(self_connection)
       THEN disconnect_begin /\ UNCHANGED << threads, connect_log >>
       ELSE connect /\ UNCHANGED mainpc
    /\ UNCHANGED << ver, comports, call, clock, sess, rows, cliVars, self_connection, self_running,
                    port_map, selected, afterq, closing, ticks >>

\* the Start / Stop Monitoring button
ClickMonitor ==
    /\ ver \in {"v4", "v5"}
    /\ mainpc = "idle"
    /\ widgets.monitor_btn = "normal"
    /\ toggle_monitoring("button")
    /\ UNCHANGED << connect_log, ver, comports, call, clock, sess, rows, cliVars, self_connection, port_map,
                    selected, widgets, afterq, mainpc, closing, ticks >>

\* the Refresh button
ClickRefresh ==
    /\ ver \in {"v4", "v5"}
    /\ mainpc = "idle"
    /\ widgets.refresh_btn = "normal"
    /\ update_ports_list
    /\ UNCHANGED << connect_log, ver, comports, call, clock, sess, rows, cliVars, self_connection, self_running,
                    widgets, afterq, mainpc, threads, closing, ticks >>

\* faulty variant of update_gui_and_csv: a sink that drops what it is handed
update_gui_and_csv_drop(log, sample) == log

\* update_gui_and_csv(timestamp, row_data): the table insert and the CSV
\* append of one row
update_gui_and_csv(log, sample) == Append(log, sample)

\* the main loop runs the oldest queued callback
RunCallback ==
    /\ ver \in {"v4", "v5"}
    /\ mainpc = "idle"
    /\ afterq # << >>
    /\ afterq' = Tail(afterq)
    /\ LET cb == Head(afterq) IN
       CASE cb.cb = "update_ui_on_connect" ->
              /\ widgets' = [widgets EXCEPT !.connect_btn = "normal", !.monitor_btn = "normal"]
              /\ UNCHANGED << self_connection, self_running, threads, rows, mainpc >>
         [] cb.cb = "update_ui_on_fail" ->
              /\ widgets' = [widgets EXCEPT !.connect_btn = "normal", !.port_combo = "readonly",
                                            !.refresh_btn = "normal"]
              /\ self_connection' = NoConn
              /\ UNCHANGED << self_running, threads, rows, mainpc >>
         [] cb.cb = "disconnect" ->
              /\ disconnect_begin
              /\ UNCHANGED << self_connection, self_running, threads, rows >>
         [] cb.cb = "toggle_monitoring" ->
              /\ toggle_monitoring("callback")
              /\ UNCHANGED << self_connection, widgets, rows, mainpc >>
         [] cb.cb = "update_gui_and_csv" ->
              /\ rows' = update_gui_and_csv(rows, cb.arg)
              /\ UNCHANGED << self_connection, self_running, threads, widgets, mainpc >>
    /\ UNCHANGED << connect_log, ver, comports, call, clock, sess, cliVars, port_map, selected, closing, ticks >>

(***************************************************************************)
(* attempt_connection_on_port, on its own thread                           *)
(***************************************************************************)
\* faulty variant of gui_afterOpen: an OBD open that raises ends the routine
gui_afterOpen_raiseAborts(out) ==
    CASE out = "connected" -> "n_assign"
      [] out = "notconn" -> "n_close"
      [] out = "raise" -> "n_fail"

gui_afterOpen(out) ==
    CASE out = "connected" -> "n_assign"
      [] out = "notconn" -> "n_close"
      [] out = "raise" -> "n_delay"

\* faulty variant of gui_moreAttempts: range(1, 5)
gui_moreAttempts_oneMore(a) == a <= GuiAttempts

\* for attempt in range(1, 4)
gui_moreAttempts(a) == a < GuiAttempts

\* OBD(...) and is_connected()
n_open(i) ==
    /\ threads[i].pc = "n_open"
    /\ \E out \in {"connected", "notconn", "raise"} :
        LET t == threads[i] IN
        /\ sess' = IF out = "raise" THEN sess ELSE Append(sess, NewSess(t.port, out))
        /\ threads' = [threads EXCEPT ![i] =
              [t EXCEPT !.tr = Append(t.tr, Ev("open", t.port, t.attempt, out)),
                        !.conn = IF out = "raise" THEN NoConn ELSE Len(sess'),
                        !.pc = gui_afterOpen(out)]]
    /\ UNCHANGED << self_connection, afterq >>

\* conn.close() of an object that did not respond
n_close(i) ==
    /\ threads[i].pc = "n_close"
    /\ LET t == threads[i] IN
        /\ sess' = discardSess(sess, t.conn)
        /\ threads' = [threads EXCEPT ![i] =
              [t EXCEPT !.tr = Append(t.tr, Ev("close", t.port, t.attempt, "ok")),
                        !.conn = NoConn, !.pc = "n_delay"]]
    /\ UNCHANGED << self_connection, afterq >>

\* time.sleep(2), then the next attempt or the failure report
n_delay(i) ==
    /\ threads[i].pc = "n_delay"
    /\ LET t == threads[i] IN
        threads' = [threads EXCEPT ![i] =
              [t EXCEPT !.tr = Append(t.tr, Ev("delay", t.port, t.attempt, "ok")),
                        !.attempt = IF gui_moreAttempts(t.attempt) THEN t.attempt + 1 ELSE t.attempt,
                        !.pc = IF gui_moreAttempts(t.attempt) THEN "n_open" ELSE "n_fail"]]
    /\ UNCHANGED << self_connection, afterq, sess >>

\* self.root.after(0, self.update_ui_on_fail, "Connection Failed")
n_fail(i) ==
    /\ threads[i].pc = "n_fail"
    /\ afterq' = Append(afterq, Cb("update_ui_on_fail", None))
    /\ threads' = [threads EXCEPT ![i] = Done(threads[i])]
    /\ UNCHANGED << self_connection, sess >>

\* after time.sleep(5): self.connection = conn; the success callback; return
n_assign(i) ==
    /\ threads[i].pc = "n_assign"
    /\ self_connection' = threads[i].conn
    /\ afterq' = Append(afterq, Cb("update_ui_on_connect", threads[i].port))
    /\ threads' = [threads EXCEPT ![i] = Done(threads[i])]
    /\ UNCHANGED sess

attempt_connection_on_port ==
    /\ ver \in {"v4", "v5"}
    /\ \E i \in 1..Len(threads) :
        /\ threads[i].kind = "neg"
        /\ n_open(i) \/ n_close(i) \/ n_delay(i) \/ n_fail(i) \/ n_assign(i)
    /\ UNCHANGED << connect_log, ver, comports, call, clock, rows, cliVars, self_running, port_map, selected,
                    widgets, mainpc, closing, ticks >>

(***************************************************************************)
(* monitor_data, on its own thread                                         *)
(***************************************************************************)
\* the reading of one parameter, as get_formatted_value(response) returns it
guiReading(s, p) ==
    IF sess[s].status = "connected"
    THEN Reading(p, "val")
    ELSE Reading(p, "N/A")

\* how many of the eight queries one step of the worker covers: the first
\* and the last are steps of their own, those in between are taken together
\* (what another thread does between two of them has the effect it has
\* between the first and the second)
queriesInStep(n) ==
    IF n = 0 \/ n = NumParams - 1 THEN 1 ELSE NumParams - 1 - n
guiReadings(s, n) == [j \in 1..queriesInStep(n) |-> guiReading(s, parameterSet[n + j])]

\* headers, and row_data = [data_points.get(h, "N/A") for h in headers[1:]];
\* data_points holds the readings under their names, in the order queried
\* faulty variant of headers: two columns exchanged
headers_swapped ==
    << "Timestamp", "Engine RPM", "Coolant Temp", "Throttle Pos", "Engine Load",
       "Speed", "Fuel Level", "Intake Temp", "Ambient Temp" >>

headers == << "Timestamp" >> \o parameterSet
get(dp, h) ==
    IF \E k \in DOMAIN dp : dp[k].p = h
    THEN dp[CHOOSE k \in DOMAIN dp : dp[k].p = h]
    ELSE Reading(None, "N/A")
row_data(dp) == [j \in 1..(Len(headers) - 1) |-> get(dp, headers[j + 1])]

\* the log line, the queued callback and the break of one of the two ways
\* out of the loop body
leaveLoop(t, outcome) ==
    [t EXCEPT !.pc = "m_exit", !.outcome = outcome, !.qi = 0, !.row = << >>, !.checked = FALSE,
              !.ts = << >>]
lostCallback == Cb("disconnect", None)
errorCallback == Cb("toggle_monitoring", None)

\* while self.running:
m_head(i) ==
    /\ threads[i].pc = "m_head"
    /\ self_running => ticks < MaxTicks
    /\ LET t == threads[i] IN
        IF self_running
        THEN /\ threads' = [threads EXCEPT ![i] =
                   [t EXCEPT !.pc = "m_check", !.lateTick = t.lateTick \/ t.stopped]]
             /\ ticks' = ticks + 1
        ELSE /\ threads' = [threads EXCEPT ![i] =
                   [t EXCEPT !.pc = "m_exit",
                             !.outcome = IF t.outcome = None THEN "Cancelled" ELSE t.outcome]]
             /\ ticks' = ticks
    /\ UNCHANGED << afterq, self_running, clock >>

\* if not self.connection ...
m_check(i) ==
    /\ threads[i].pc = "m_check"
    /\ IF self_connection = NoConn
       THEN /\ threads' = [threads EXCEPT ![i] = leaveLoop(threads[i], "ConnectionLost")]
            /\ afterq' = Append(afterq, lostCallback)
       ELSE /\ threads' = [threads EXCEPT ![i].pc = "m_check2"]
            /\ afterq' = afterq
    /\ UNCHANGED << ticks, self_running, clock >>

\* ... or not self.connection.is_connected(): a second read of
\* self.connection, which raises AttributeError if it has become None; when
\* the check passes the timestamp is taken
m_check2(i) ==
    /\ threads[i].pc = "m_check2"
    /\ CASE self_connection = NoConn ->
              /\ threads' = [threads EXCEPT ![i] = leaveLoop(threads[i], "CheckAttributeError")]
              /\ afterq' = Append(afterq, errorCallback)
              /\ clock' = clock
         [] self_connection # NoConn /\ ~isConnected(self_connection) ->
              /\ threads' = [threads EXCEPT ![i] = leaveLoop(threads[i], "ConnectionLost")]
              /\ afterq' = Append(afterq, lostCallback)
              /\ clock' = clock
         [] OTHER ->
              /\ clock' = clock + 1
              /\ threads' = [threads EXCEPT ![i] =
                    [@ EXCEPT !.pc = "m_query", !.qi = 0, !.row = << >>, !.checked = TRUE,
                              !.ts = timestampOf(clock'), !.okTicks = @ + 1]]
              /\ afterq' = afterq
    /\ UNCHANGED << ticks, self_running >>

\* get_formatted_value(self.connection.query(...)), one entry of data_points;
\* after the last one the row is queued for update_gui_and_csv and the
\* thread sleeps REFRESH_RATE.  The query may raise, and self.connection.query
\* raises AttributeError when self.connection has become None
m_query(i) ==
    /\ threads[i].pc = "m_query"
    /\ LET t == threads[i] IN
       IF self_connection = NoConn
       THEN /\ threads' = [threads EXCEPT ![i] = leaveLoop(t, "AttributeError")]
            /\ afterq' = Append(afterq, errorCallback)
       ELSE \/ LET data_points == t.row \o guiReadings(self_connection, t.qi) IN
                 IF Len(data_points) < NumParams
                 THEN /\ threads' = [threads EXCEPT ![i] =
                            [t EXCEPT !.qi = Len(data_points), !.row = data_points]]
                      /\ afterq' = afterq
                 ELSE /\ threads' = [threads EXCEPT ![i] =
                            [t EXCEPT !.qi = 0, !.row = << >>, !.pc = "m_head", !.checked = FALSE,
                                      !.ts = << >>]]
                      /\ afterq' = Append(afterq,
                            Cb("update_gui_and_csv", Sample(t.ts, i, row_data(data_points))))
            \/ /\ threads' = [threads EXCEPT ![i] = leaveLoop(t, "Error")]
               /\ afterq' = Append(afterq, errorCallback)
    /\ UNCHANGED << ticks, self_running, clock >>

\* after the loop: self.running = False
m_exit(i) ==
    /\ threads[i].pc = "m_exit"
    /\ self_running' = FALSE
    /\ threads' = [threads EXCEPT ![i] = Done(threads[i])]
    /\ UNCHANGED << afterq, ticks, clock >>

monitor_data ==
    /\ ver \in {"v4", "v5"}
    /\ \E i \in 1..Len(threads) :
        /\ threads[i].kind = "mon"
        /\ m_head(i) \/ m_check(i) \/ m_check2(i) \/ m_query(i) \/ m_exit(i)
    /\ UNCHANGED << connect_log, ver, comports, call, sess, rows, cliVars, self_connection, port_map,
                    selected, widgets, mainpc, closing >>

(***************************************************************************)
(* The utility functions called on their own.                              *)
(***************************************************************************)
\* pieces hardware-id strings are made of: the separator, twelve hex digits
\* in lower case, a whole token in upper case, eleven hex digits, a letter
\* that is no hex digit, a suffix and a digit
HwidPieces ==
    { << "&" >>,
      << "0","0","1","d","a","5","0","8","4","9","1","2" >>,
      << "&","A","A","B","B","C","C","D","D","E","E","F","F" >>,
      << "0","1","2","3","4","5","6","7","8","9","a" >>,
      << "G" >>,
      << "_","C" >>,
      << "7" >> }
RECURSIVE Hwids(_)
Hwids(n) ==
    IF n = 0 THEN { << >> }
    ELSE Hwids(n - 1) \cup { h \o x : h \in Hwids(n - 1), x \in HwidPieces }

(***************************************************************************)
(* get_formatted_value.  A magnitude is an int or a float; the model keeps *)
(* its exact decimal value as th, the floor of a thousand times the value, *)
(* and sticky, whether something is left below the last thousandth.        *)
(***************************************************************************)
int(n) == [kind |-> "int", th |-> n * 1000, sticky |-> FALSE]
\* the float of h hundredths
float(h) == [kind |-> "float", th |-> h * 10, sticky |-> FALSE]

\* value * 9/5 + 32
toFahrenheit(value) ==
    [kind |-> "float",
     th |-> ((value.th * 9) \div 5) + 32000,
     sticky |-> value.sticky \/ (value.th * 9) % 5 # 0]

\* value * 0.621371
toMph(value) ==
    LET a == value.th * 621
        b == value.th * 371
        c == a + (b \div 1000)
    IN  [kind |-> "float",
         th |-> c \div 1000,
         sticky |-> value.sticky \/ c % 1000 # 0 \/ b % 1000 # 0]

Digits == << "0","1","2","3","4","5","6","7","8","9" >>
\* the decimal digits of a natural number
RECURSIVE natStr(_)
natStr(n) ==
    IF n < 10 THEN << Digits[n + 1] >>
    ELSE natStr(n \div 10) \o << Digits[(n % 10) + 1] >>

abs(n) == IF n < 0 THEN 0 - n ELSE n
\* str() of an int
intStr(value) ==
    (IF value.th < 0 THEN << "-" >> ELSE << >>) \o natStr(abs(value.th \div 1000))

\* the value in units of 10^-d, rounded to the nearest unit, a tie to the
\* even one (d is 0 or 1)
rounded(value, d) ==
    LET u == IF d = 0 THEN 1000 ELSE 100
        t == value.th \div u
        r == value.th % u
        up == \/ 2 * r > u
              \/ 2 * r = u /\ value.sticky
              \/ 2 * r = u /\ ~value.sticky /\ t % 2 = 1
    IN  IF up THEN t + 1 ELSE t

\* f"{value:.0f}" and f"{value:.1f}"
fixed(value, d) ==
    LET q == abs(rounded(value, d))
        sign == IF value.th < 0 THEN << "-" >> ELSE << >>
    IN  IF d = 0 THEN sign \o natStr(q)
        ELSE sign \o natStr(q \div 10) \o << "." >> \o << Digits[(q % 10) + 1] >>

\* what get_formatted_value returns: a str, or None
str(chars) == [type |-> "str", s |-> chars]
PyNone == [type |-> "NoneType", s |-> << >>]

degC == << "°","C" >>
degF == << "°","F" >>
kmh == << "k","m","/","h" >>
mph == << "m","p","h" >>
percent == << "%" >>
NA == << "N","/","A" >>
Temperatures == {"COOLANT_TEMP", "INTAKE_TEMP", "AMBIANT_AIR_TEMP"}
Percentages == {"THROTTLE_POS", "ENGINE_LOAD", "FUEL_LEVEL"}
Commands == Temperatures \cup Percentages \cup {"RPM", "SPEED"}

\* OBD-v2.py and OBD-v3.py
get_formatted_value_v3(response, unit, UNITS) ==
    IF response.null THEN PyNone
    ELSE LET imperialTemp == unit = degC /\ UNITS = "imperial"
             imperialSpeed == unit = kmh /\ UNITS = "imperial"
             value == IF imperialTemp THEN toFahrenheit(response.value)
                      ELSE IF imperialSpeed THEN toMph(response.value)
                      ELSE response.value
             unit2 == IF imperialTemp THEN degF
                      ELSE IF imperialSpeed THEN mph
                      ELSE unit
         IN  IF value.kind = "float"
             THEN str(fixed(value, 1) \o << " " >> \o unit2)
             ELSE str(intStr(value) \o << " " >> \o unit2)

\* OBD-v4.py
get_formatted_value_v4(response) ==
    IF response.null THEN str(NA)
    ELSE LET value == response.value
             unit_label == response.unit
         IN  IF value.kind = "float"
             THEN str(fixed(value, 1) \o << " " >> \o unit_label)
             ELSE str(intStr(value) \o << " " >> \o unit_label)

\* OBD-v5.py, for the eight commands the program queries
get_formatted_value_v5(response) ==
    IF response.null THEN str(NA)
    ELSE LET value == response.value
             cmd == response.command
         IN  IF cmd \in Temperatures THEN str(fixed(value, 0) \o << " " >> \o degC)
             ELSE IF cmd = "RPM" THEN str(fixed(value, 1))
             ELSE IF cmd \in Percentages THEN str(fixed(value, 1) \o << " " >> \o percent)
             ELSE str(fixed(value, 1) \o << " " >> \o kmh)

get_formatted_value(v, arg) ==
    IF v \in {"v2", "v3"} THEN get_formatted_value_v3(arg.response, arg.unit, arg.UNITS)
    ELSE IF v = "v4" THEN get_formatted_value_v4(arg.response)
    ELSE get_formatted_value_v5(arg.response)

\* the magnitudes the function is called with: ints, and floats in hundredths
IntMagnitudes == { -40, 0, 93, 100 }
FloatMagnitudes == { -4, 0, 1370, 9300, 9304, 9350, 75850 }
Magnitudes == { int(n) : n \in IntMagnitudes } \cup { float(h) : h \in FloatMagnitudes }
\* response.unit, the name python-obd has for the unit of the value
UnitLabels ==
    { << "d","e","g","C" >>, << "p","e","r","c","e","n","t" >>, << "k","p","h" >>,
      << "r","e","v","o","l","u","t","i","o","n","s","_","p","e","r","_",
         "m","i","n","u","t","e" >> }
\* the unit arguments main passes
UnitArgs == { degC, << >>, percent, kmh }
Responses(v) ==
    { [command |-> c, null |-> n, value |-> m, unit |-> u] :
        c \in Commands, n \in BOOLEAN, m \in Magnitudes,
        u \in IF v = "v4" THEN UnitLabels ELSE { << >> } }
FormatArgs(v) ==
    { [response |-> r, unit |-> u, UNITS |-> s] :
        r \in { x \in Responses(v) : x.null => x.value = int(0) },
        u \in IF v \in {"v2", "v3"} THEN UnitArgs ELSE { << >> },
        s \in {"metric", "imperial"} }

\* the definitions of extract_mac_from_hwid each file holds
macDefs(v) ==
    IF v = "v5" THEN {"extract_mac_from_hwid", "extract_mac_from_hwid_2"}
    ELSE {"extract_mac_from_hwid"}

InitUtil ==
    /\ ver \in {"v2", "v3", "v4", "v5"}
    /\ \/ /\ call \in { [fn |-> f, arg |-> h, res |-> None, n |-> 0, prev |-> None] :
                            f \in macDefs(ver), h \in Hwids(MaxPieces) }
          /\ comports = << >>
       \/ /\ call \in { [fn |-> "list_paired_bluetooth_ports", arg |-> f, res |-> None,
                          n |-> 0, prev |-> None] : f \in macDefs(ver) }
          /\ comports \in AnyEnumerations
       \/ /\ call \in { [fn |-> "get_formatted_value", arg |-> a, res |-> None,
                          n |-> 0, prev |-> None] : a \in FormatArgs(ver) }
          /\ comports = << >>
    /\ retries = 1
    /\ pc = "util"
    /\ available_ports = << >>
    /\ idx = 0
    /\ attempt = 0
    /\ ret = << NoConn, None >>
    /\ sess = << >>
    /\ trace = << >>
    /\ qi = 0
    /\ row = << >>
    /\ rows = << >>
    /\ tickLinkUp = TRUE
    /\ exitKind = None
    /\ clock = 0
    /\ GuiOff

\* extract_mac_from_hwid(hwid) is called and returns
call_extract_mac ==
    /\ pc = "util"
    /\ call.fn \in {"extract_mac_from_hwid", "extract_mac_from_hwid_2"}
    /\ call.res = None
    /\ call' = [call EXCEPT !.res = IF call.fn = "extract_mac_from_hwid"
                                    THEN extract_mac_from_hwid(call.arg)
                                    ELSE extract_mac_from_hwid_2(call.arg),
                            !.n = 1]
    /\ UNCHANGED << ver, comports, sess, rows, clock, cliVars, guiVars >>

\* list_paired_bluetooth_ports() is called and returns; call.arg is the
\* definition the name extract_mac_from_hwid is bound to at the call
call_list_paired ==
    /\ pc = "util"
    /\ call.fn = "list_paired_bluetooth_ports"
    /\ call.n < MaxCalls
    /\ call' = [call EXCEPT !.res = IF call.arg = "extract_mac_from_hwid"
                                    THEN list_paired_bluetooth_ports(comports)
                                    ELSE list_paired_bluetooth_ports_2(comports),
                            !.n = @ + 1,
                            !.prev = call.res]
    /\ UNCHANGED << ver, comports, sess, rows, clock, cliVars, guiVars >>

\* get_formatted_value is called and returns
call_get_formatted_value ==
    /\ pc = "util"
    /\ call.fn = "get_formatted_value"
    /\ call.n = 0
    /\ call' = [call EXCEPT !.res = get_formatted_value(ver, call.arg), !.n = 1]
    /\ UNCHANGED << ver, comports, sess, rows, clock, cliVars, guiVars >>

NextUtil ==
    \/ call_extract_mac
    \/ call_list_paired
    \/ call_get_formatted_value

SpecUtil == InitUtil /\ [][NextUtil]_vars

NextCLI ==
    \/ cwr_scan
    \/ cwr_settle
    \/ cwr_open
    \/ cwr_close
    \/ cwr_delay
    \/ cwr_fail
    \/ LinkDrop
    \/ main_check
    \/ main_tick
    \/ main_query
    \/ main_emit
    \/ main_interrupt

SpecCLI == InitCLI /\ [][NextCLI]_vars

NextGUI ==
    \/ ClickConnect
    \/ ClickMonitor
    \/ ClickRefresh
    \/ RunCallback
    \/ disc_toggle
    \/ disc_close
    \/ disc_rest
    \/ close_thread
    \/ attempt_connection_on_port
    \/ monitor_data
    \/ LinkDrop

SpecGUI == InitGUI /\ [][NextGUI]_vars

Init == InitCLI \/ InitGUI
Next == NextCLI \/ NextGUI
Spec == Init /\ [][Next]_vars

(***************************************************************************)
(* Properties.                                                             *)
(***************************************************************************)
isCLI == ver \in {"v2", "v3"}
isGUI == ver \in {"v4", "v5"}
scanEmpty == list_paired_bluetooth_ports(comports) = << >>
NoPairedLine == Ev("print", None, 0, "NoPairedPortsFound")
NoAdapterLine == Ev("print", None, 0, "NoResponsiveAdapter")

\* the events of `retries` attempts on port p that all reported not connected
RECURSIVE failedAttempts(_, _, _)
failedAttempts(p, k, n) ==
    IF k > n THEN << >>
    ELSE << Ev("open", p, k, "notconn"), Ev("close", p, k, "ok"), Ev("delay", p, k, "ok") >>
         \o failedAttempts(p, k + 1, n)

\* an event after position j is about another candidate, or is the final line
movedOn(tr, j) == \E m \in (j + 1)..Len(tr) : tr[m].port # tr[j].port
allNotConn(tr, p) ==
    \A m \in DOMAIN tr : (tr[m].e = "open" /\ tr[m].port = p) => tr[m].out = "notconn"
countEv(tr, p, e) == Cardinality({ m \in DOMAIN tr : tr[m].port = p /\ tr[m].e = e })

\* C1: with an empty candidate list connect_with_retry (v2, v3) returns the
\* no-paired-ports failure with no settle operation and no OBD open performed;
\* connect() of the Tkinter programs (v4, v5) with no port selected starts no
\* negotiation worker and opens no session.
C1_EmptyNoNegotiation ==
    /\ (isCLI /\ scanEmpty /\ pc # "cwr_scan") =>
          /\ sess = << >>
          /\ pc \in {"main_check", "done"}
          /\ pc = "main_check" => (ret = << NoConn, None >> /\ trace = << NoPairedLine >>)
          /\ pc = "done" => exitKind = "NoConnection"
    /\ (isGUI /\ selected = None) =>
          /\ threads = << >>
          /\ sess = << >>
          /\ connect_log # "Starting connection process"
C1_Witness ==
    \/ isCLI /\ scanEmpty /\ pc = "main_check" /\ comports # << >>
    \/ isGUI /\ selected = None /\ connect_log = "Please select a paired port first"

\* C2: a candidate P that passed the settle step and whose every OBD open
\* reported not connected gets exactly `retries` open attempts, each followed
\* by one wait of `delay`, and only then is the next candidate tried.
C2_ExactlyRetriesAttempts ==
    \A j \in DOMAIN trace :
        (/\ trace[j].e = "settle" /\ trace[j].out = "ok"
         /\ allNotConn(trace, trace[j].port)
         /\ movedOn(trace, j)) =>
            LET p == trace[j].port
                n == j + 3 * retries
            IN  /\ Len(trace) > n
                /\ SubSeq(trace, j + 1, n) = failedAttempts(p, 1, retries)
                /\ trace[n + 1].port # p
                /\ trace[n + 1].e \in {"settle", "print"}
C2_Witness ==
    \E j \in DOMAIN trace :
        /\ trace[j].e = "settle" /\ trace[j].out = "ok"
        /\ allNotConn(trace, trace[j].port)
        /\ retries >= 2
        /\ Len(trace) > j + 3 * retries
        /\ trace[j + 3 * retries + 1].e = "settle"

\* C3: when the k-th open attempt on a port reports connected that session is
\* returned at once: nothing more is attempted on that port or on a later
\* candidate, and no inter-attempt delay follows.
C3_SuccessReturnsAtOnce ==
    \A j \in DOMAIN trace :
        (trace[j].e = "open" /\ trace[j].out = "connected") =>
            /\ j = Len(trace)
            /\ pc = "main_check"
            /\ trace[j].att \in 1..retries
            /\ ret = << Len(sess), trace[j].port >>
            /\ sess[Len(sess)].port = trace[j].port
            /\ sess[Len(sess)].closes = 0
C3_Witness ==
    /\ pc = "main_check"
    /\ trace # << >>
    /\ trace[Len(trace)].out = "connected"
    /\ trace[Len(trace)].att = 2
    /\ retries > 2
    /\ idx < Len(available_ports)

\* C4: a failure of the settle step on a candidate skips it with no OBD open
\* on it, never leaves connect_with_retry, and leaves every later candidate
\* its settle step and its full budget of `retries` attempts.
candidateDone(c) ==
    \E m \in DOMAIN trace :
        \/ trace[m] = NoAdapterLine
        \/ \E d \in (c + 1)..Len(available_ports) : trace[m].port = available_ports[d][1]
C4_SettleFailureSkips ==
    /\ \A j \in DOMAIN trace :
          (trace[j].e = "settle" /\ trace[j].out # "ok") =>
              /\ \A m \in DOMAIN trace : trace[m].port = trace[j].port => m = j
              /\ j = Len(trace) => pc \in {"cwr_settle", "cwr_fail"}
              /\ j < Len(trace) =>
                    \/ trace[j + 1] = NoAdapterLine /\ idx > Len(available_ports)
                    \/ /\ trace[j + 1].e = "settle"
                       /\ \E c \in 1..(Len(available_ports) - 1) :
                             /\ available_ports[c][1] = trace[j].port
                             /\ available_ports[c + 1][1] = trace[j + 1].port
    /\ \A c \in 1..Len(available_ports) :
          candidateDone(c) =>
              LET p == available_ports[c][1] IN
              /\ countEv(trace, p, "settle") = 1
              /\ countEv(trace, p, "open") \in {0, retries}
              /\ countEv(trace, p, "open") = retries <=>
                    \E m \in DOMAIN trace : trace[m] = Ev("settle", p, 0, "ok")
C4_Witness ==
    /\ Len(available_ports) = 2
    /\ Len(trace) > 1
    /\ trace[1].e = "settle" /\ trace[1].out # "ok"
    /\ candidateDone(2)
    /\ countEv(trace, available_ports[2][1], "open") = retries
    /\ retries >= 2

raiseHandled(tr, n) ==
    \A j \in DOMAIN tr :
        (tr[j].e = "open" /\ tr[j].out = "raise") =>
            /\ tr[j].att \in 1..n
            /\ j < Len(tr) => tr[j + 1] = Ev("delay", tr[j].port, tr[j].att, "ok")
            /\ j + 1 < Len(tr) =>
                  IF tr[j].att < n
                  THEN /\ tr[j + 2].e = "open"
                       /\ tr[j + 2].port = tr[j].port
                       /\ tr[j + 2].att = tr[j].att + 1
                  ELSE /\ tr[j + 2].e \in {"settle", "print"}
                       /\ tr[j + 2].port # tr[j].port
lastIsRaise(tr) == tr # << >> /\ tr[Len(tr)].e = "open" /\ tr[Len(tr)].out = "raise"
lastIsDelayAfterRaise(tr) ==
    /\ Len(tr) > 1
    /\ tr[Len(tr)].e = "delay"
    /\ tr[Len(tr) - 1].e = "open" /\ tr[Len(tr) - 1].out = "raise"
C6_TransportErrorRetried ==
    /\ raiseHandled(trace, retries)
    /\ lastIsRaise(trace) => pc = "cwr_delay"
    /\ lastIsDelayAfterRaise(trace) =>
          IF trace[Len(trace)].att < retries
          THEN pc = "cwr_open" /\ attempt = trace[Len(trace)].att + 1
          ELSE pc \in {"cwr_settle", "cwr_fail"}
    /\ \A i \in 1..Len(threads) :
          LET t == threads[i] IN
          /\ raiseHandled(t.tr, GuiAttempts)
          /\ lastIsRaise(t.tr) => t.pc = "n_delay"
          /\ lastIsDelayAfterRaise(t.tr) =>
                IF t.tr[Len(t.tr)].att < GuiAttempts
                THEN t.pc = "n_open" /\ t.attempt = t.tr[Len(t.tr)].att + 1
                ELSE t.pc = "n_fail"
C6_Witness ==
    \/ /\ isCLI
       /\ Len(trace) > 3
       /\ \E j \in 1..(Len(trace) - 2) :
             /\ trace[j].e = "open" /\ trace[j].out = "raise" /\ trace[j].att = retries
             /\ trace[j + 2].e = "settle"
    \/ /\ isGUI
       /\ \E i \in 1..Len(threads) :
             /\ threads[i].pc = "n_fail"
             /\ \E j \in DOMAIN threads[i].tr :
                   threads[i].tr[j].e = "open" /\ threads[i].tr[j].out = "raise"

\* C7: at most one monitor_data worker is alive at any instant, so that no
\* two threads are ever inside a tick on self.connection at the same time.
inTick(t) == t.kind = "mon" /\ t.pc \in {"m_check", "m_check2", "m_query"}
C7_OneMonitorWorker ==
    /\ Cardinality(Alive("mon")) <= 1
    /\ \A i, j \in 1..Len(threads) : (inTick(threads[i]) /\ inTick(threads[j])) => i = j

\* C8: an error raised while querying ends the acquisition loop for good: no
\* monitor_data worker is started by anything but the user pressing the
\* button, in particular not by the toggle_monitoring callback the failing
\* worker queued.
C8_ErrorIsFatal ==
    \A i \in 1..Len(threads) : threads[i].kind = "mon" => threads[i].born # "callback"

\* C9: a worker that was running when Stop Monitoring set running to False
\* begins no new tick afterwards, whatever is pressed later.
C9_StopEndsWorker ==
    \A i \in 1..Len(threads) : threads[i].kind = "mon" => ~threads[i].lateTick

\* C10: every tick of every sampling loop begins with a check that the session
\* is connected, and no query is issued in a tick whose session was not
\* connected when it began.
C10_TickChecksLink ==
    /\ (isCLI /\ pc \in {"query", "emit"}) => tickLinkUp
    /\ \A i \in 1..Len(threads) : threads[i].pc = "m_query" => threads[i].checked

\* the samples worker w has had accepted by the sink, and those it has queued
\* for it with root.after
accepted(w) == { j \in DOMAIN rows : rows[j].w = w }
queued(w) == { j \in DOMAIN afterq : afterq[j].cb = "update_gui_and_csv" /\ afterq[j].arg.w = w }
lostAfter(i, k) ==
    /\ threads[i].kind = "mon"
    /\ threads[i].pc = "m_exit"
    /\ threads[i].outcome = "ConnectionLost"
    /\ threads[i].okTicks = k

\* C11: a monitor_data worker whose session was connected at the start of
\* its ticks 1..k and not at the start of tick k+1 leaves the loop by the
\* connection-lost path having produced exactly k samples, each of which
\* update_gui_and_csv is run for exactly once.
C11_LostAfterKSamples ==
    \A i \in 1..Len(threads) : \A k \in 0..(MaxTicks + MaxThreads) :
        lostAfter(i, k) =>
            /\ Cardinality(accepted(i)) + Cardinality(queued(i)) = k
            /\ \A m, n \in accepted(i) : m # n => rows[m].ts # rows[n].ts
            /\ \A m \in accepted(i), n \in queued(i) : rows[m].ts # afterq[n].arg.ts
C11_Witness ==
    \E i \in 1..Len(threads) :
        /\ lostAfter(i, MaxTicks - 1)
        /\ ~threads[i].lateTick
        /\ Cardinality(accepted(i)) = MaxTicks - 1
        /\ queued(i) = {}

\* the order of two timestamps of the same format, as a reader of the log
\* compares them: field by field
tsBefore(a, b) ==
    IF Len(a) = 1 THEN a[1] < b[1]
    ELSE a[1] < b[1] \/ (a[1] = b[1] /\ a[2] < b[2])

\* C12: the rows the sink has accepted carry strictly increasing timestamps,
\* in every run of main (v2, v3) and under every sequence of Start and Stop
\* in the Tkinter programs (v4, v5).
C12_SinkStrictlyIncreasing ==
    \A m, n \in DOMAIN rows : m < n => tsBefore(rows[m].ts, rows[n].ts)

\* every sample handed to the sink or queued for it
samples ==
    { rows[j] : j \in DOMAIN rows } \cup
    { afterq[j].arg : j \in { k \in DOMAIN afterq : afterq[k].cb = "update_gui_and_csv" } }
\* readings gathered in query order are those of the first parameters
inQueryOrder(rs) == \A j \in DOMAIN rs : j <= NumParams /\ rs[j].p = parameterSet[j]
isNull(r) == r.v \in {None, "N/A"}

\* C13: every sample of every variant carries exactly 8 readings, the j-th
\* being the reading of the j-th parameter of the parameter set, which is
\* also the j-th query issued in the tick; a null reading keeps its position.
C13_EightReadingsInOrder ==
    /\ \A sm \in samples :
          /\ Len(sm.data) = NumParams
          /\ inQueryOrder(sm.data)
          /\ \A j \in DOMAIN sm.data : sm.data[j].v \in {"val", None, "N/A"}
    /\ (isCLI /\ pc \in {"query", "emit"}) => (Len(row) = qi + 1 /\ inQueryOrder(Tail(row)))
    /\ \A i \in 1..Len(threads) :
          threads[i].pc = "m_query" =>
              (Len(threads[i].row) = threads[i].qi /\ inQueryOrder(threads[i].row))
C13_Witness ==
    \/ /\ isCLI
       /\ \E j \in DOMAIN rows :
             /\ isNull(rows[j].data[6])
             /\ ~isNull(rows[j].data[5]) /\ ~isNull(rows[j].data[7])
    \/ /\ isGUI
       /\ \E j \in DOMAIN rows : \A k \in 1..NumParams : isNull(rows[j].data[k])

\* a step in which a worker queues a sample for update_gui_and_csv
newQueued ==
    /\ Len(afterq') = Len(afterq) + 1
    /\ afterq'[Len(afterq')].cb = "update_gui_and_csv"
\* a step that abandons the tick in progress before its last query has
\* answered: a query raises, the session turns out to be None, or main is
\* interrupted
tickAbandoned ==
    \/ isCLI /\ pc = "query" /\ pc' = "done"
    \/ \E i \in 1..Len(threads) : threads[i].pc = "m_query" /\ threads'[i].pc = "m_exit"

\* C14: no partial commits.  The sink is handed a row only by a tick that
\* completed all 8 queries, and that row holds all 8 readings; a step that
\* abandons a tick hands nothing to the sink and queues nothing for it.
C14_NoPartialCommit ==
    [][ /\ (isCLI /\ rows' # rows) =>
              /\ pc = "emit" /\ qi = NumParams /\ Len(row) = NumParams + 1
              /\ rows' = Append(rows, Sample(Head(row), 0, Tail(row)))
        /\ (isGUI /\ rows' # rows) =>
              /\ afterq # << >> /\ Head(afterq).cb = "update_gui_and_csv"
              /\ Len(Head(afterq).arg.data) = NumParams
              /\ rows' = Append(rows, Head(afterq).arg)
        /\ newQueued =>
              \E i \in 1..Len(threads) :
                  /\ threads[i].pc = "m_query" /\ threads[i].qi = NumParams - 1
                  /\ threads'[i].pc = "m_head"
                  /\ afterq'[Len(afterq')].arg.w = i
                  /\ afterq'[Len(afterq')].arg.ts = threads[i].ts
                  /\ Len(afterq'[Len(afterq')].arg.data) = NumParams
        /\ tickAbandoned => (rows' = rows /\ ~newQueued)
      ]_vars
C14_Witness ==
    \/ /\ isCLI /\ pc = "done" /\ exitKind \in {"Exception", "KeyboardInterrupt"}
       /\ qi \in 1..(NumParams - 1) /\ Len(row) = qi + 1
       /\ Len(rows) = 1 /\ rows[1].ts # Head(row)
    \/ /\ isGUI
       /\ \E i \in 1..Len(threads) :
             /\ threads[i].pc = "m_exit" /\ threads[i].outcome \in {"Error", "AttributeError"}
             /\ threads[i].okTicks = 2
             /\ Cardinality(accepted(i)) + Cardinality(queued(i)) = 1

\* a step that starts a monitor_data worker
monitorStarted ==
    /\ Len(threads') = Len(threads) + 1
    /\ threads'[Len(threads')].kind = "mon"

\* C15: the sampling loop is started only on a session that negotiation
\* handed over: a monitor_data worker is started, by whatever path, only
\* while self.connection is not None, and main enters its loop only with
\* the connected session connect_with_retry returned.
C15_StartedOnlyWithSession ==
    [][ /\ monitorStarted => self_connection # NoConn
        /\ (isCLI /\ pc' = "loop_head" /\ pc = "main_check") => isConnected(connection)
      ]_vars

\* C16: disconnect() is safe while a tick is in flight: no monitor_data
\* worker ever dereferences a self.connection that has become None, so none
\* leaves its loop through the except clause for that reason.
C16_CloseSafeMidTick ==
    \A i \in 1..Len(threads) :
        threads[i].kind = "mon" =>
            threads[i].outcome \notin {"AttributeError", "CheckAttributeError"}

\* C17: in the Tkinter programs close() of the session never runs on the Tk
\* main thread: no step of the main thread through disconnect() closes a
\* session itself.
C17_CloseOffMainThread ==
    [][ (mainpc = "disc_close" /\ mainpc' = "disc_rest") => sess' = sess ]_vars

\* C18: every run of a sampling loop that ends, ends in one of the outcomes
\* ConnectionLost, CancelledByCaller or AcquisitionError; an exception raised
\* by a query in main (v2, v3) is caught and reported as AcquisitionError
\* and does not leave main unhandled.
C18_ThreeOutcomes ==
    /\ (isCLI /\ pc = "done" /\ exitKind # "NoConnection") =>
          exitKind \in {"ConnectionLost", "KeyboardInterrupt", "AcquisitionError"}
    /\ \A i \in 1..Len(threads) :
          (threads[i].kind = "mon" /\ threads[i].pc = "m_exit") =>
              threads[i].outcome \in {"ConnectionLost", "Cancelled", "Error",
                                      "AttributeError", "CheckAttributeError"}

\* a call of one of the definitions of extract_mac_from_hwid has returned
macReturned == pc = "util" /\ call.fn \in macDefs(ver) /\ call.res # None
\* the uppercased string holds, from position i on, an & and 12 hex digits
tokenAt(h, i) ==
    /\ i + 12 <= Len(h)
    /\ upper(h)[i] = "&"
    /\ \A k \in (i + 1)..(i + 12) : upper(h)[k] \in HexDigits
hasToken(h) == \E i \in 1..Len(h) : tokenAt(h, i)
firstTokenAt(h) == CHOOSE i \in 1..Len(h) : tokenAt(h, i) /\ \A j \in 1..(i - 1) : ~tokenAt(h, j)
\* the two characters of the g-th octet of the token at i, and the six
\* octets with colons between them
octet(h, i, g) == upper(h)[i + 2 * g - 1] \o upper(h)[i + 2 * g]
grouped(h, i) ==
    octet(h, i, 1) \o ":" \o octet(h, i, 2) \o ":" \o octet(h, i, 3) \o ":" \o
    octet(h, i, 4) \o ":" \o octet(h, i, 5) \o ":" \o octet(h, i, 6)
lowerToken == << "0","0","1","d","a","5","0","8","4","9","1","2" >>
upperToken == << "&","A","A","B","B","C","C","D","D","E","E","F","F" >>

\* C19: for a hardware-id string whose uppercased form holds an & followed
\* by 12 hex digits, extract_mac_from_hwid returns the first such token in
\* upper case as six two-character groups joined by ':', in the order they
\* stand in the string; '&001da5084912' gives '00:1D:A5:08:49:12'.
C19_MacOfFirstToken ==
    (macReturned /\ hasToken(call.arg)) =>
        /\ call.res = grouped(call.arg, firstTokenAt(call.arg))
        /\ Len(call.res) = 17
        /\ call.arg = << "&" >> \o lowerToken => call.res = "00:1D:A5:08:49:12"
        /\ call.arg = << "&" >> \o lowerToken \o upperToken => call.res = "00:1D:A5:08:49:12"
        /\ call.arg = upperToken \o << "&" >> \o lowerToken => call.res = "AA:BB:CC:DD:EE:FF"
C19_Witness ==
    /\ macReturned
    /\ call.arg = << "7" >> \o << "&" >> \o lowerToken
    /\ call.res = "00:1D:A5:08:49:12"

\* C20: every definition of extract_mac_from_hwid in the repository returns
\* "00:00:00:00:00:00" for a hardware-id string that holds no & followed by
\* 12 hex digits.
C20_SentinelWithoutToken ==
    (macReturned /\ ~hasToken(call.arg)) => call.res = ZeroMac
\* a call of list_paired_bluetooth_ports has returned
listReturned == pc = "util" /\ call.fn = "list_paired_bluetooth_ports" /\ call.n > 0
\* the token of twelve zeros
zeroToken == << "&","0","0","0","0","0","0","0","0","0","0","0","0" >>

\* C21: list_paired_bluetooth_ports never returns a candidate whose mac is
\* "00:00:00:00:00:00", whatever the ports enumerated.
C21_NoSentinelCandidate ==
    listReturned => \A i \in 1..Len(call.res) : call.res[i][2] # ZeroMac
\* a Bluetooth port whose hardware id carries twelve zeros was enumerated
\* next to a port that has an address, and only the latter was returned
C21_Witness ==
    /\ listReturned
    /\ Len(comports) = 2
    /\ contains(comports[1].description, Bluetooth)
    /\ comports[1].hwid = zeroToken \o << "_","C" >>
    /\ Len(call.res) = 1
    /\ call.res[1] = << "COM4", "AA:BB:CC:DD:EE:FF" >>

\* the description holds the nine characters of "Bluetooth" in a row
hasBluetooth(d) == \E i \in 1..(Len(d) - 8) : SubSeq(d, i, i + 8) = Bluetooth
\* the positions of the enumeration a candidate is due for, and the rank of
\* such a position among them
keptIdx ==
    { i \in 1..Len(comports) :
        /\ hasBluetooth(comports[i].description)
        /\ hasToken(comports[i].hwid)
        /\ grouped(comports[i].hwid, firstTokenAt(comports[i].hwid)) # ZeroMac }
rank(i) == Cardinality({ j \in keptIdx : j <= i })

\* C22: list_paired_bluetooth_ports (v2, v4; the same function in v3 and in
\* the running v5) returns exactly the enumerated ports whose description
\* holds "Bluetooth" and whose hardware id gives an address other than the
\* sentinel, as (device, mac), in enumeration order, each as often as it
\* was enumerated.
C22_ExactSubsequence ==
    (listReturned /\ call.arg = "extract_mac_from_hwid") =>
        /\ Len(call.res) = Cardinality(keptIdx)
        /\ \A i \in keptIdx :
              call.res[rank(i)] =
                  << comports[i].device,
                     grouped(comports[i].hwid, firstTokenAt(comports[i].hwid)) >>
\* COM4 enumerated before COM3: both are returned, COM4 first
C22_Witness ==
    /\ listReturned
    /\ call.arg = "extract_mac_from_hwid"
    /\ Len(comports) = 2
    /\ comports[1].device = "COM4"
    /\ comports[2].device = "COM3"
    /\ call.res = << << "COM4", "AA:BB:CC:DD:EE:FF" >>, << "COM3", "00:1D:A5:08:49:12" >> >>

fmtReturned == pc = "util" /\ call.fn = "get_formatted_value" /\ call.n = 1
fmtResponse == call.arg.response
fmtValue == call.arg.response.value
\* the reading is of the class named and, in v2 and v3 where the caller
\* names the unit, the call passes the unit main passes for that class
temperatureReading ==
    fmtResponse.command \in Temperatures /\ (isCLI => call.arg.unit = degC)
speedReading ==
    fmtResponse.command = "SPEED" /\ (isCLI => call.arg.unit = kmh)
percentageReading ==
    fmtResponse.command \in Percentages /\ (isCLI => call.arg.unit = percent)
rpmReading ==
    fmtResponse.command = "RPM" /\ (isCLI => call.arg.unit = << >>)

\* C23: in every variant get_formatted_value returns the string "N/A" for
\* a null reading, whatever the unit argument, the parameter and the unit
\* system.
C23_NullGivesNA ==
    (fmtReturned /\ fmtResponse.null) => call.res = str(NA)

\* C24: in every variant, under the imperial unit system a temperature is
\* rendered as C*9/5+32 and a speed as kmh*0.621371, converted first and
\* rounded to one decimal afterwards, with the suffix of the converted
\* unit; 93.0 with unit °C gives "199.4 °F".
C24_ImperialConversion ==
    (fmtReturned /\ ~fmtResponse.null /\ call.arg.UNITS = "imperial") =>
        /\ temperatureReading =>
              call.res = str(fixed(toFahrenheit(fmtValue), 1) \o << " " >> \o degF)
        /\ (temperatureReading /\ fmtValue = float(9300)) =>
              call.res = str(<< "1","9","9",".","4"," ","°","F" >>)
        /\ speedReading =>
              call.res = str(fixed(toMph(fmtValue), 1) \o << " " >> \o mph)

\* C25: in every variant a percentage (throttle, engine load, fuel level)
\* is rendered unconverted under either unit system with one decimal and
\* the suffix " %", and RPM unconverted with one decimal and nothing after
\* the number (float magnitudes, as python-obd reports for them).
C25_PercentAndRpm ==
    (fmtReturned /\ ~fmtResponse.null /\ fmtValue.kind = "float") =>
        /\ percentageReading =>
              call.res = str(fixed(fmtValue, 1) \o << " " >> \o percent)
        /\ rpmReading => call.res = str(fixed(fmtValue, 1))

\* the part of a rendered value before its first space, and the number of
\* characters after its decimal point (-1 without a point)
numberPart(chars) ==
    IF \E i \in 1..Len(chars) : chars[i] = " "
    THEN SubSeq(chars, 1, (CHOOSE i \in 1..Len(chars) :
                              chars[i] = " " /\ \A j \in 1..(i - 1) : chars[j] # " ") - 1)
    ELSE chars
decimals(chars) ==
    LET n == numberPart(chars)
    IN  IF \E i \in 1..Len(n) : n[i] = "."
        THEN Len(n) - (CHOOSE i \in 1..Len(n) : n[i] = ".")
        ELSE -1

\* C26: in every variant a float magnitude is rendered with exactly one
\* decimal place and an int magnitude without a decimal point, for every
\* parameter (under the metric unit system, where no conversion turns an
\* int into a float).
C26_OneDecimalOrNone ==
    (fmtReturned /\ ~fmtResponse.null /\ call.arg.UNITS = "metric") =>
        /\ fmtValue.kind = "float" => decimals(call.res.s) = 1
        /\ fmtValue.kind = "int" => decimals(call.res.s) = -1
\* main is inside its try statement, and main has left it by an exception
inLoop == isCLI /\ pc \in {"loop_head", "query", "emit"}
leftLoop == isCLI /\ pc = "done" /\ exitKind \in {"KeyboardInterrupt", "Exception"}

\* C27: in v2 and v3 the session main's loop works on has not been closed
\* while the loop runs and has been closed exactly once when the loop has
\* been left, by KeyboardInterrupt or by an exception of a query or of the
\* sink; when connect_with_retry returned no session, main closes nothing
\* and issues no query.
C27_LoopReleasesSession ==
    /\ [](inLoop => (connection # NoConn /\ sess[connection].closes = 0))
    /\ [](leftLoop => (connection # NoConn /\ sess[connection].closes = 1
                                           /\ sess[connection].status = "closed"))
    /\ []((isCLI /\ pc = "done" /\ connection = NoConn) =>
            (exitKind = "NoConnection" /\ rows = << >> /\ row = << >> /\ qi = 0))
    /\ [][(isCLI /\ pc = "main_check" /\ connection = NoConn) =>
            (sess' = sess /\ pc' = "done")]_vars
\* the sink raised on the row of the second tick
C27_Witness ==
    /\ leftLoop
    /\ exitKind = "Exception"
    /\ qi = NumParams
    /\ Len(rows) = 1
    /\ sess[connection].closes = 1
\* the OBD objects that have been created and not closed
openSessions == { s \in 1..Len(sess) : sess[s].status # "closed" }
\* connect_with_retry has returned without a session
cwrFailed == isCLI /\ pc \in {"main_check", "done"} /\ connection = NoConn

\* C29: while and after a negotiation routine runs (connect_with_retry,
\* attempt_connection_on_port) at most one OBD session is open at any time,
\* and none is open when connect_with_retry has ended in failure.
C29_AtMostOneOpenSession ==
    /\ Cardinality(openSessions) <= 1
    /\ cwrFailed => openSessions = {}
\* connect_with_retry is running, and the number of steps of one kind it
\* has taken
inCwr == isCLI /\ pc \in {"cwr_scan", "cwr_settle", "cwr_open", "cwr_close", "cwr_delay", "cwr_fail"}
steps(e) == Cardinality({ m \in DOMAIN trace : trace[m].e = e })

\* the most events connect_with_retry can record: per candidate a settle
\* step and, for each attempt, an open, a close and a delay; and one line
stepBound == Len(available_ports) * (3 * retries + 1) + 1

\* C30: connect_with_retry terminates whatever the serial port and the OBD
\* library answer or raise: wherever it stands it is at a candidate of the
\* list and at an attempt of the budget, so that its next step exists, every
\* step after the scan adds one event to a record that never exceeds
\* stepBound, it makes at most len(candidates) * retries open attempts and
\* at most len(candidates) settle steps, and it returns a session that
\* was connected or the failure value.
C30_CwrTerminatesWithinBudget ==
    /\ [](isCLI => /\ steps("open") <= Len(available_ports) * retries
                   /\ steps("settle") <= Len(available_ports)
                   /\ Len(trace) <= stepBound)
    /\ []((inCwr /\ pc \in {"cwr_settle", "cwr_open", "cwr_close", "cwr_delay"}) =>
            /\ idx \in 1..Len(available_ports)
            /\ pc # "cwr_settle" => attempt \in 1..retries)
    /\ [][(inCwr /\ pc # "cwr_scan" /\ cliVars' # cliVars) =>
            Len(trace') = Len(trace) + 1]_vars
    /\ []((isCLI /\ pc = "main_check") =>
            \/ ret = << NoConn, None >>
            \/ /\ ret[1] = Len(sess)
               /\ trace[Len(trace)] = Ev("open", ret[2], attempt, "connected"))
\* every attempt of the budget was made, on two candidates, and failed
C30_Witness ==
    /\ isCLI
    /\ pc = "main_check"
    /\ ret = << NoConn, None >>
    /\ Len(available_ports) = 2
    /\ retries = MaxRetries
    /\ steps("open") = 2 * MaxRetries
    /\ steps("settle") = 2
\* the positions of the record that are about port p
eventsOn(p) == { m \in DOMAIN trace : trace[m].port = p }
\* at position m the raw serial handle the settle step opened on the port of
\* trace[m] is still open: s.close() raised
rawHandleOpen(m) ==
    \E j \in 1..(m - 1) :
        /\ trace[j].e = "settle" /\ trace[j].port = trace[m].port
        /\ trace[j].out = "close_raises"

\* C31: in connect_with_retry the settle step runs once per candidate, not
\* once per attempt, and before the first OBD open on that port; the serial
\* handle it opened is closed before any OBD open on the port.
C31_SettleOncePerCandidate ==
    isCLI =>
        /\ \A i \in 1..Len(available_ports) :
              LET p == available_ports[i][1] IN
              /\ countEv(trace, p, "settle") <= 1
              /\ eventsOn(p) # {} =>
                    /\ countEv(trace, p, "settle") = 1
                    /\ trace[CHOOSE m \in eventsOn(p) : \A k \in eventsOn(p) : m <= k].e = "settle"
              /\ (pc = "main_check" /\ ret = noAdapterReturn /\ trace # << >>) =>
                    countEv(trace, p, "settle") = 1
        /\ \A m \in DOMAIN trace :
              trace[m].e = "open" =>
                  /\ ~rawHandleOpen(m)
                  /\ \E j \in 1..(m - 1) :
                        /\ trace[j].e = "settle" /\ trace[j].port = trace[m].port
                        /\ trace[j].out = "ok"
\* three open attempts on one port after its one settle step
C31_Witness ==
    /\ isCLI
    /\ \E m \in DOMAIN trace :
          /\ trace[m].e = "open" /\ trace[m].att = 3
          /\ countEv(trace, trace[m].port, "settle") = 1
          /\ countEv(trace, trace[m].port, "open") = 3
\* every candidate has had its settle step and every settle step failed
allSettlesFailed ==
    /\ available_ports # << >>
    /\ steps("settle") = Len(available_ports)
    /\ \A m \in DOMAIN trace : trace[m].e = "settle" => trace[m].out # "ok"

\* C32: when the candidate list is not empty and the settle step of every
\* candidate fails, connect_with_retry returns the NoResponsiveAdapter
\* failure without a single OBD open attempt or inter-attempt delay.
C32_AllSettlesFailNoOpen ==
    (isCLI /\ allSettlesFailed) =>
        /\ steps("open") = 0
        /\ steps("delay") = 0
        /\ sess = << >>
        /\ pc \in {"cwr_fail", "main_check"}
        /\ pc = "main_check" =>
              /\ ret = noAdapterReturn
              /\ trace[Len(trace)] = NoAdapterLine
\* two candidates, both skipped, and the failure returned
C32_Witness ==
    /\ isCLI
    /\ allSettlesFailed
    /\ Len(available_ports) = 2
    /\ pc = "main_check"
    /\ trace[1].out = "open_raises"
    /\ trace[2].out = "close_raises"
    /\ ret = noAdapterReturn
\* the failed open attempts and the inter-attempt delays of a record
failedOpens(tr) == { m \in DOMAIN tr : tr[m].e = "open" /\ tr[m].out # "connected" }
delays(tr) == { m \in DOMAIN tr : tr[m].e = "delay" }
\* the record of a negotiation routine obeys the rule of the delays; pending
\* says that the routine stands between a failed attempt and its delay
delayRule(tr, pending) ==
    /\ Cardinality(delays(tr)) + (IF pending THEN 1 ELSE 0) = Cardinality(failedOpens(tr))
    /\ \A m \in delays(tr) :
          \/ /\ m > 1 /\ tr[m - 1] = Ev("open", tr[m].port, tr[m].att, "raise")
          \/ /\ m > 2 /\ tr[m - 1] = Ev("close", tr[m].port, tr[m].att, "ok")
             /\ tr[m - 2] = Ev("open", tr[m].port, tr[m].att, "notconn")
    /\ \A m \in DOMAIN tr :
          (tr[m].e = "open" /\ tr[m].out = "connected") => m = Len(tr)

\* C33: in connect_with_retry and in attempt_connection_on_port the delays
\* between attempts are as many as the failed open attempts: one follows
\* each failed attempt, the last one on a port included, and none follows
\* the attempt that succeeded.
C33_DelayAfterEveryFailure ==
    /\ isCLI => delayRule(trace, pc \in {"cwr_close", "cwr_delay"})
    /\ isGUI => \A i \in 1..Len(threads) :
                    threads[i].kind = "neg" =>
                        delayRule(threads[i].tr, threads[i].pc \in {"n_close", "n_delay"})
\* a worker about to report failure: three failed attempts, three delays,
\* the last delay after the third attempt
C33_Witness ==
    /\ isGUI
    /\ \E i \in 1..Len(threads) :
          LET tr == threads[i].tr IN
          /\ threads[i].pc = "n_fail"
          /\ Cardinality(failedOpens(tr)) = 3
          /\ Cardinality(delays(tr)) = 3
          /\ tr[Len(tr)] = Ev("delay", threads[i].port, 3, "ok")
\* worker i is a negotiation worker that returns in this step
negReturns(i) ==
    /\ i \in 1..Len(threads) /\ threads[i].kind = "neg"
    /\ threads[i].pc # "done" /\ threads'[i].pc = "done"
\* this step queues one callback, cb
queues(cb) == afterq' = Append(afterq, cb)
\* this step queues a callback of a negotiation
queuesOutcome ==
    /\ Len(afterq') = Len(afterq) + 1
    /\ afterq'[Len(afterq')].cb \in {"update_ui_on_connect", "update_ui_on_fail"}
\* the main loop runs update_ui_on_fail in this step
runsOnFail == afterq # << >> /\ Head(afterq).cb = "update_ui_on_fail" /\ afterq' = Tail(afterq)

\* C34: a negotiation started by connect() (v4, v5) makes at most 3 open
\* attempts and, wherever it stands, has a next step until it returns; the
\* step in which it returns queues exactly one of update_ui_on_connect and
\* update_ui_on_fail, and nothing else queues them.  self.connection gets a
\* session only in the returning step of the success path, the session
\* being the one whose is_connected() was true, together with the success
\* callback; the failure path leaves self.connection alone, and
\* update_ui_on_fail sets it to None and enables the Connect button.
C34_NegotiationOutcome ==
    /\ [](isGUI => \A i \in 1..Len(threads) :
            (threads[i].kind = "neg" /\ threads[i].pc # "done") =>
                /\ Cardinality({ m \in DOMAIN threads[i].tr : threads[i].tr[m].e = "open" }) <= 3
                /\ Len(threads[i].tr) <= 9
                /\ threads[i].attempt \in 1..3
                /\ threads[i].pc \in {"n_open", "n_close", "n_delay", "n_fail", "n_assign"})
    /\ [][isGUI =>
            /\ \A i \in 1..Len(threads) : negReturns(i) =>
                  LET t == threads[i] IN
                  \/ /\ t.pc = "n_assign"
                     /\ t.tr[Len(t.tr)] = Ev("open", t.port, t.attempt, "connected")
                     /\ t.conn # NoConn
                     /\ self_connection' = t.conn
                     /\ queues(Cb("update_ui_on_connect", t.port))
                  \/ /\ t.pc = "n_fail"
                     /\ \A m \in DOMAIN t.tr : t.tr[m].e = "open" => t.tr[m].out # "connected"
                     /\ self_connection' = self_connection
                     /\ queues(Cb("update_ui_on_fail", None))
            /\ queuesOutcome => \E i \in 1..Len(threads) : negReturns(i)
            /\ (self_connection' # self_connection /\ self_connection' # NoConn) =>
                  \E i \in 1..Len(threads) : negReturns(i) /\ threads[i].pc = "n_assign"
            /\ runsOnFail =>
                  (self_connection' = NoConn /\ widgets'.connect_btn = "normal")
       ]_vars
\* a negotiation has failed after three attempts and update_ui_on_fail
\* waits in the queue
C34_Witness ==
    /\ isGUI
    /\ Len(threads) = 1 /\ threads[1].kind = "neg" /\ threads[1].pc = "done"
    /\ afterq = << Cb("update_ui_on_fail", None) >>
    /\ self_connection = NoConn
    /\ widgets.connect_btn = "disabled"
\* C35: in v4 and v5, whatever buttons are pressed while they are enabled,
\* at most one attempt_connection_on_port worker is alive at a time and no
\* monitor_data worker is alive while one is.
C35_WorkersExclusive ==
    isGUI =>
        /\ Cardinality(Alive("neg")) <= 1
        /\ Alive("neg") # {} => Alive("mon") = {}
\* after this step close() of session s has been called, or the thread that
\* calls it has been started
closeRequested(s) == s \in closing' \/ (s \in DOMAIN sess' /\ sess'[s].closes > 0)
\* self.connection referred to a session and this step makes it refer to
\* something else
sessionDropped == isGUI /\ self_connection # NoConn /\ self_connection' # self_connection

\* C36: in v4 and v5, whenever self.connection is overwritten with a new
\* session or reset to None, close() has been requested for the session it
\* referred to; a session whose link dropped is not abandoned unclosed when
\* Connect is pressed.
C36_NoSessionLeaked ==
    [][sessionDropped => closeRequested(self_connection)]_vars
\* m is 17 characters long: six pairs of upper-case hex digits with ':'
\* between them.  The pairs a mac can be made of are those of the tokens in
\* the hardware ids enumerated.
wellFormedMac(m) ==
    /\ Len(m) = 17
    /\ \E j \in 1..Len(comports) : \E i \in 1..Len(comports[j].hwid) :
          /\ tokenAt(comports[j].hwid, i)
          /\ m = grouped(comports[j].hwid, i)

\* C37: every candidate list_paired_bluetooth_ports returns carries a
\* well-formed MAC, six upper-case hex pairs separated by ':', 17 characters
\* in all; in OBD-v5.py also when the name extract_mac_from_hwid is bound to
\* the second definition of the file.
C37_CandidatesWellFormed ==
    listReturned => \A i \in 1..Len(call.res) : wellFormedMac(call.res[i][2])
====
